---------------------------- MODULE Spec2Model ----------------------------
(***************************************************************************)
(* PSL core: header parser, section parser, full parser, L-rule validator  *)
(* and metrics calculator.  Python strings are modelled as sequences of    *)
(* one-character strings, dicts as insertion-ordered sequences of entries, *)
(* and an optional value as a sequence of length 0 (None / absent key) or  *)
(* 1 (present).                                                            *)
(***************************************************************************)
EXTENDS Integers, Sequences, FiniteSets, TLC

VARIABLES psl_text, header_result, parse_result, assessment,
          document, execution_result, metrics, issues,
          heap, self_issues, pc, call_doc, returned, calls_left

vars == <<psl_text, header_result, parse_result, assessment,
          document, execution_result, metrics, issues,
          heap, self_issues, pc, call_doc, returned, calls_left>>

-----------------------------------------------------------------------------
(* Python values *)

None == <<>>
Some(x) == <<x>>

NL == "\n"
DEG == "deg"  \* the single character U+00B0 of the unit pattern
WHITESPACE == {" ", "\t", "\r", "\f", NL}
DIGITS == {"0", "1", "2", "3", "4", "5", "6", "7", "8", "9"}
UPPER == <<"A", "B", "C", "D", "E", "F", "G", "H", "I", "J", "K", "L", "M",
           "N", "O", "P", "Q", "R", "S", "T", "U", "V", "W", "X", "Y", "Z">>
LOWER == <<"a", "b", "c", "d", "e", "f", "g", "h", "i", "j", "k", "l", "m",
           "n", "o", "p", "q", "r", "s", "t", "u", "v", "w", "x", "y", "z">>
LETTERS == {UPPER[i] : i \in 1..26} \cup {LOWER[i] : i \in 1..26}

\* str.lower() on one character
LowerChar(c) ==
  IF \E i \in 1..26 : UPPER[i] = c
  THEN LOWER[CHOOSE i \in 1..26 : UPPER[i] = c]
  ELSE c

\* str.lower()
Lower(s) == [i \in 1..Len(s) |-> LowerChar(s[i])]

\* str.startswith(p) / str.endswith(p)
StartsWith(s, p) == Len(s) >= Len(p) /\ SubSeq(s, 1, Len(p)) = p
EndsWith(s, p) == Len(s) >= Len(p) /\ SubSeq(s, Len(s) - Len(p) + 1, Len(s)) = p

\* `p in s` for a non-empty p
Contains(s, p) ==
  \E i \in 1..(Len(s) - Len(p) + 1) : SubSeq(s, i, i + Len(p) - 1) = p

\* str.lstrip(chars) / str.rstrip(chars)
LStripChars(s, cs) ==
  IF \A i \in 1..Len(s) : s[i] \in cs THEN <<>>
  ELSE LET k == CHOOSE i \in 1..Len(s) :
                  s[i] \notin cs /\ \A j \in 1..(i - 1) : s[j] \in cs
       IN SubSeq(s, k, Len(s))
RStripChars(s, cs) ==
  IF \A i \in 1..Len(s) : s[i] \in cs THEN <<>>
  ELSE LET k == CHOOSE i \in 1..Len(s) :
                  s[i] \notin cs /\ \A j \in (i + 1)..Len(s) : s[j] \in cs
       IN SubSeq(s, 1, k)

\* str.strip() / str.rstrip() with no argument
Strip(s) == RStripChars(LStripChars(s, WHITESPACE), WHITESPACE)
RStrip(s) == RStripChars(s, WHITESPACE)

\* str.split(sep) for a one-character separator: the pieces between the
\* occurrences of sep, the empty ones included
Split(s, sep) ==
  LET at == {i \in 1..Len(s) : s[i] = sep}
      n == Cardinality(at)
      pos(k) == IF k = 0 THEN 0
                ELSE IF k = n + 1 THEN Len(s) + 1
                ELSE CHOOSE i \in at : Cardinality({j \in at : j < i}) = k - 1
  IN [k \in 1..(n + 1) |-> SubSeq(s, pos(k - 1) + 1, pos(k) - 1)]

\* str.split(sep, 1)
SplitOnce(s, sep) ==
  IF \A i \in 1..Len(s) : s[i] # sep THEN <<s>>
  ELSE LET k == CHOOSE i \in 1..Len(s) :
                  s[i] = sep /\ \A j \in 1..(i - 1) : s[j] # sep
       IN <<SubSeq(s, 1, k - 1), SubSeq(s, k + 1, Len(s))>>

\* sep.join(parts) for a one-character separator
RECURSIVE Join(_, _)
Join(parts, sep) ==
  IF Len(parts) = 0 THEN <<>>
  ELSE IF Len(parts) = 1 THEN parts[1]
  ELSE parts[1] \o <<sep>> \o Join(Tail(parts), sep)

\* [f(x) for x in xs if x] : drop the empty strings of a list
RECURSIVE NonEmpty(_)
NonEmpty(xs) ==
  IF Len(xs) = 0 THEN <<>>
  ELSE IF Len(xs[1]) = 0 THEN NonEmpty(Tail(xs))
  ELSE <<xs[1]>> \o NonEmpty(Tail(xs))

StripAll(xs) == [i \in 1..Len(xs) |-> Strip(xs[i])]

-----------------------------------------------------------------------------
(* src/parser/header_parser.py *)

parse_version(line) ==
  LET parts == Split(line, "v") IN Strip(parts[Len(parts)])

\* as parse_constraints, but keeping the empty pieces
parse_constraints_keep_empty(line) ==
  StripAll(Split(Strip(SplitOnce(line, ":")[2]), ";"))

parse_constraints(line) ==
  LET constraints_str == Strip(SplitOnce(line, ":")[2])
  IN NonEmpty(StripAll(Split(constraints_str, ";")))

parse_resources(line) ==
  LET resources_str == Strip(SplitOnce(line, ":")[2])
      inner == IF StartsWith(resources_str, <<"[">>) /\ EndsWith(resources_str, <<"]">>)
               THEN SubSeq(resources_str, 2, Len(resources_str) - 1)
               ELSE resources_str
  IN NonEmpty(StripAll(Split(inner, ",")))

parse_skill(line) == Strip(SplitOnce(line, ":")[2])

\* the empty dict `result = {}`: every key absent
EmptyHeader ==
  [version |-> None, context |-> None, goal |-> None,
   constraints |-> None, resources |-> None, skill |-> None]

\* one iteration of `for line in lines`
HeaderLine(result, line) ==
  IF StartsWith(line, <<"!", "p", "s", "l">>)
    THEN [result EXCEPT !.version = Some(parse_version(line))]
  ELSE IF StartsWith(line, <<"c", "o", "n", "t", "e", "x", "t", ":">>)
    THEN [result EXCEPT !.context = Some(Strip(SplitOnce(line, ":")[2]))]
  ELSE IF StartsWith(line, <<"g", "o", "a", "l", ":">>)
    THEN [result EXCEPT !.goal = Some(Strip(SplitOnce(line, ":")[2]))]
  ELSE IF StartsWith(line, <<"c", "o", "n", "s", "t", "r", "a", "i", "n", "t", "s", ":">>)
    THEN [result EXCEPT !.constraints = Some(parse_constraints(line))]
  ELSE IF StartsWith(line, <<"r", "e", "s", "o", "u", "r", "c", "e", "s", ":">>)
    THEN [result EXCEPT !.resources = Some(parse_resources(line))]
  ELSE IF StartsWith(line, <<"s", "k", "i", "l", "l", ":">>)
    THEN [result EXCEPT !.skill = Some(parse_skill(line))]
  ELSE result

RECURSIVE HeaderLoop(_, _, _)
HeaderLoop(lines, i, result) ==
  IF i > Len(lines) THEN result
  ELSE HeaderLoop(lines, i + 1, HeaderLine(result, lines[i]))

PSLHeaderParser_parse(header_text) ==
  LET lines == NonEmpty(StripAll(Split(header_text, NL)))
  IN HeaderLoop(lines, 1, EmptyHeader)

-----------------------------------------------------------------------------
(* src/ast/models.py *)

\* a ThreeC value
ThreeC(clear, cheap, safe) == [clear |-> clear, cheap |-> cheap, safe |-> safe]

\* a Constraint value; unit is optional
Constraint(name, operator, value, unit) ==
  [kind |-> "Constraint", name |-> name, operator |-> operator,
   value |-> value, unit |-> unit]

\* Python values of the three types that reach a PSLDocument field
StrValue(s) == [kind |-> "str", str |-> s]
ListValue(items) == [kind |-> "list", items |-> items, three_c |-> ThreeC(FALSE, FALSE, FALSE)]
ThreeCValue(tc) == [kind |-> "ThreeC", items |-> <<>>, three_c |-> tc]

Returned(v) == [raised |-> "", message |-> "", value |-> Some(v)]
Raised(e, msg) == [raised |-> e, message |-> msg, value |-> None]

\* what the declared field types accept
PSLDocumentFieldsValid(kw) ==
  /\ \A i \in 1..Len(kw.constraints) : kw.constraints[i].kind = "Constraint"
  /\ \A i \in 1..Len(kw.sections) : kw.sections[i].value.kind = "list"
  /\ \A i \in 1..Len(kw.three_c) : kw.three_c[i].kind = "ThreeC"
  /\ \A i \in 1..Len(kw.gloss) : kw.gloss[i].kind = "str"

\* PSLDocument(**kw): the validated model, or the validation error
PSLDocument(kw) ==
  IF PSLDocumentFieldsValid(kw)
  THEN Returned(
         [version |-> kw.version, context |-> kw.context, goal |-> kw.goal,
          constraints |-> kw.constraints,
          resources |-> kw.resources, skill |-> kw.skill,
          sections |-> [i \in 1..Len(kw.sections) |->
                          [name |-> kw.sections[i].name,
                           items |-> kw.sections[i].value.items]],
          three_c |-> [i \in 1..Len(kw.three_c) |-> kw.three_c[i].three_c],
          gloss |-> [i \in 1..Len(kw.gloss) |-> kw.gloss[i].str]])
  ELSE Raised("ValidationError", "validation error for PSLDocument")

-----------------------------------------------------------------------------
(* src/parser/full_parser.py *)

\* dict lookup and assignment on an insertion-ordered dict
HasKey(d, k) == \E i \in 1..Len(d) : d[i].name = k
DictGet(d, k) ==
  IF HasKey(d, k) THEN Some(d[CHOOSE i \in 1..Len(d) : d[i].name = k].value) ELSE None
DictPut(d, k, v) ==
  IF HasKey(d, k)
  THEN [i \in 1..Len(d) |-> IF d[i].name = k THEN [name |-> k, value |-> v] ELSE d[i]]
  ELSE Append(d, [name |-> k, value |-> v])

parse_three_c(text) ==
  ThreeC(Contains(Lower(text), <<"c", "l", "e", "a", "r", ":", " ", "y", "e", "s">>),
         Contains(Lower(text), <<"c", "h", "e", "a", "p", ":", " ", "y", "e", "s">>),
         Contains(Lower(text), <<"s", "a", "f", "e", ":", " ", "y", "e", "s">>))

\* the loop variables of _parse_sections before the first line
SectionsStart ==
  [sections |-> <<>>, current_section |-> None, current_items |-> <<>>, broke |-> FALSE]

\* `if current_section`: neither None nor the empty string
Truthy(current_section) == Len(current_section) = 1 /\ Len(current_section[1]) > 0

\* one iteration of `for line in text.split('\n')`
SectionLine(st, raw, text) ==
  LET line == Strip(raw) IN
  IF st.broke \/ Len(line) = 0 THEN st
  ELSE IF StartsWith(line, <<"[">>) /\ EndsWith(line, <<"]">>)
    THEN [st EXCEPT
            !.sections = IF Truthy(st.current_section)
                         THEN DictPut(st.sections, st.current_section[1],
                                      ListValue(st.current_items))
                         ELSE st.sections,
            !.current_section = Some(Split(SubSeq(line, 2, Len(line) - 1), ":")[1]),
            !.current_items = <<>>]
  ELSE IF Truthy(st.current_section)
          /\ (StartsWith(line, <<"-">>) \/ StartsWith(line, <<"1", ")">>) \/ StartsWith(line, <<"2", ")">>))
    THEN [st EXCEPT
            !.current_items =
               Append(st.current_items,
                      LStripChars(LStripChars(line, {"-", " "}), DIGITS \cup {")", " "}))]
  ELSE IF st.current_section = Some(<<"3", "C">>) /\ (\E i \in 1..Len(line) : line[i] = ":")
    THEN [st EXCEPT
            !.sections = DictPut(st.sections, <<"3", "C">>, ThreeCValue(parse_three_c(text))),
            !.broke = TRUE]
  ELSE st

\* the loop; each iteration's variables are bound as values (s) before the next
RECURSIVE SectionLoop(_, _, _, _)
SectionLoop(lines, i, st, text) ==
  IF i > Len(lines) THEN st
  ELSE CHOOSE r \in {SectionLoop(lines, i + 1, s, text) :
                       s \in {SectionLine(st, lines[i], text)}} : TRUE

parse_sections(text) ==
  CHOOSE r \in
    {IF Truthy(st.current_section) /\ Len(st.current_items) > 0
     THEN DictPut(st.sections, st.current_section[1], ListValue(st.current_items))
     ELSE st.sections
       : st \in {SectionLoop(Split(text, NL), 1, SectionsStart, text)}} : TRUE

\* the header ends before the first line that begins with "["
find_header_end(lines) ==
  IF \A i \in 1..Len(lines) : ~StartsWith(lines[i], <<"[">>) THEN Len(lines)
  ELSE (CHOOSE i \in 1..Len(lines) :
          StartsWith(lines[i], <<"[">>)
          /\ \A j \in 1..(i - 1) : ~StartsWith(lines[j], <<"[">>)) - 1

\* the header half is parsed by the header parser
parse_header(header_text) == PSLHeaderParser_parse(header_text)

\* header_data['constraints'] is a list of str
StrValues(xs) == [i \in 1..Len(xs) |-> StrValue(xs[i])]

\* the keyword arguments of the PSLDocument(...) call, or the KeyError of the
\* first header_data[...] subscript whose key is absent
DocumentArgs(text) ==
  LET split == Split(text, NL)
      lines == [i \in 1..Len(split) |-> RStrip(split[i])]
      header_end == find_header_end(lines)
      header_text == Join(SubSeq(lines, 1, header_end), NL)
      sections_text == Join(SubSeq(lines, header_end + 1, Len(lines)), NL)
      header_data == parse_header(header_text)
      sections_data == parse_sections(sections_text)
  IN IF header_data.version = None THEN Raised("KeyError", "'version'")
     ELSE IF header_data.context = None THEN Raised("KeyError", "'context'")
     ELSE IF header_data.goal = None THEN Raised("KeyError", "'goal'")
     ELSE IF header_data.constraints = None THEN Raised("KeyError", "'constraints'")
     ELSE Returned(
            [version |-> header_data.version[1],
             context |-> header_data.context[1],
             goal |-> header_data.goal[1],
             constraints |-> StrValues(header_data.constraints[1]),
             resources |-> header_data.resources,
             skill |-> header_data.skill,
             sections |-> sections_data,
             three_c |-> DictGet(sections_data, <<"3", "C">>),
             gloss |-> DictGet(sections_data, <<"G", "L", "O", "S", "S">>)])

PSLFullParser_parse(text) ==
  LET args == DocumentArgs(text)
  IN IF args.raised # "" THEN args ELSE PSLDocument(args.value[1])

-----------------------------------------------------------------------------
(* Input texts *)

MaxBodyLines == 4
MaxShortBody == 2

VER == <<"!", "p", "s", "l", " ", "v", "0", ".", "1">>
CTX == <<"c", "o", "n", "t", "e", "x", "t", ":", " ", "k">>
GOAL == <<"g", "o", "a", "l", ":", " ", "g">>
CONS == <<"c", "o", "n", "s", "t", "r", "a", "i", "n", "t", "s", ":">>
CONS1 == <<"c", "o", "n", "s", "t", "r", "a", "i", "n", "t", "s", ":", " ", "t", "i", "m", "e", "<", "=", "1", "0", "m", "i", "n">>
CONST3 == <<"c", "o", "n", "s", "t", "r", "a", "i", "n", "t", "s", ":", " ", "t", "i", "m", "e", "<", "=", "4", "0", "m", "i", "n", ";", " ", "t", "o", "o", "l", "s", "=", "b", "a", "s", "i", "c", ";", " ", "d", "a", "m", "a", "g", "e", "=", "n", "o", "n", "e">>
RES == <<"r", "e", "s", "o", "u", "r", "c", "e", "s", ":", " ", "[", "s", "a", "w", ",", " ", "s", "a", "n", "d", "p", "a", "p", "e", "r", ",", " ", "g", "l", "u", "e", "]">>
CONS3 == <<" ", " ", "c", "o", "n", "s", "t", "r", "a", "i", "n", "t", "s", ":", " ", "a", "=", "1", " ", ";", ";", " ", "b", ":", "2", " ", ";", " ", "c">>
GOAL2 == <<" ", "g", "o", "a", "l", ":", " ", "x", ":", "y", " ">>
SKILL == <<"s", "k", "i", "l", "l", ":", " ", "n">>

MandatoryLines == <<VER, CTX, GOAL, CONS>>
GoodHeader == MandatoryLines

RECURSIVE Pick(_, _, _)
Pick(lines, keep, i) ==
  IF i > Len(lines) THEN <<>>
  ELSE (IF i \in keep THEN <<lines[i]>> ELSE <<>>) \o Pick(lines, keep, i + 1)

\* every header that lacks some of the four mandatory lines, and the full ones
Headers ==
  {Pick(MandatoryLines, keep, 1) : keep \in SUBSET (1..4)}
  \cup {<<VER, CTX, GOAL, CONS1>>, <<VER, CTX, GOAL, CONST3, RES, SKILL>>,
        <<VER, CTX, GOAL, CONS3, GOAL2>>}

BodyLines ==
  {<<"[", "F", "A", "C", "T", "]">>, <<"[", "3", "C", "]">>, <<"-", " ", "c", "l", "e", "a", "r", ":", " ", "y", "e", "s">>, <<"c", "h", "e", "a", "p", ":", " ", "Y", "E", "S">>, <<"1", ")", " ", "5", "g", " ", "x">>, <<"3", ")", " ", "a", "b">>}

SeqsUpTo(S, n) == UNION {[1..k -> S] : k \in 0..n}

Texts ==
  {Join(h \o b, NL) : h \in Headers, b \in SeqsUpTo(BodyLines, MaxShortBody)}
  \cup {Join(GoodHeader \o b, NL) : b \in SeqsUpTo(BodyLines, MaxBodyLines)}

-----------------------------------------------------------------------------
(* Numbers: a float result is kept as an exact fraction in lowest terms *)

RECURSIVE GCD(_, _)
GCD(a, b) == IF b = 0 THEN a ELSE GCD(b, a % b)

Frac(n, d) == LET g == GCD(n, d) IN [num |-> n \div g, den |-> d \div g]
FracAdd(x, y) == Frac(x.num * y.den + y.num * x.den, x.den * y.den)
FracMul(x, y) == Frac(x.num * y.num, x.den * y.den)
FracGeq(x, y) == x.num * y.den >= y.num * x.den
Hundredths(n) == Frac(n, 100)

-----------------------------------------------------------------------------
(* src/validator/l_rules.py *)

\* \w of the regular expression
WORDCHARS == LETTERS \cup DIGITS \cup {"_"}
IsWordAt(s, i) == i >= 1 /\ i <= Len(s) /\ s[i] \in WORDCHARS
\* \b between s[p - 1] and s[p]
WordBoundary(s, p) == IsWordAt(s, p - 1) # IsWordAt(s, p)

\* re.search(r'\b\d+\.?\d*\s*(?:u1|u2|...)\b', s, re.IGNORECASE)
SearchNumber(s, units) ==
  \E a \in 1..Len(s) : \E b \in a..Len(s) :
    /\ WordBoundary(s, a)
    /\ \A i \in a..b : s[i] \in DIGITS
    /\ \E p1 \in {b + 1} \cup (IF b + 1 <= Len(s) /\ s[b + 1] = "." THEN {b + 2} ELSE {}) :
       \E p2 \in p1..(Len(s) + 1) : \E p3 \in p2..(Len(s) + 1) :
         /\ \A i \in p1..(p2 - 1) : s[i] \in DIGITS
         /\ \A i \in p2..(p3 - 1) : s[i] \in WHITESPACE
         /\ \E u \in units :
              /\ p3 + Len(u) - 1 <= Len(s)
              /\ Lower(SubSeq(s, p3, p3 + Len(u) - 1)) = u
              /\ WordBoundary(s, p3 + Len(u))

ValidatorUnits ==
  {<<"u", "s", "d">>, <<"m", "i", "n">>, <<"g">>, <<"k", "g">>, <<"k", "c", "a", "l">>, <<DEG, "c">>, <<"m", "m">>, <<"c", "m">>}

expected_order ==
  <<<<"F", "A", "C", "T">>, <<"T", "E", "C", "H", "N", "I", "Q", "U", "E">>, <<"H", "Y", "P">>, <<"R", "O", "L", "L", "B", "A", "C", "K">>, <<"S", "A", "F", "E", "T", "Y">>,
    <<"A", "S", "S", "U", "M", "P", "T", "I", "O", "N", "S">>, <<"C", "H", "E", "C", "K", "L", "I", "S", "T">>, <<"3", "C">>, <<"G", "L", "O", "S", "S">>>>

InSeq(x, xs) == \E i \in 1..Len(xs) : xs[i] = x

Keys(d) == [i \in 1..Len(d) |-> d[i].name]

\* doc.sections.get(tag, [])
SectionItems(doc, tag) ==
  IF HasKey(doc.sections, tag)
  THEN doc.sections[CHOOSE i \in 1..Len(doc.sections) : doc.sections[i].name = tag].items
  ELSE <<>>

Issue(rule, level, text, names, counts) ==
  [rule |-> rule, level |-> level, text |-> text, names |-> names, counts |-> counts]

\* as validate_l01_section_order, but comparing every key, known or not
validate_l01_every_key(doc) ==
  LET actual_sections == Keys(doc.sections)
      InActual(s) == InSeq(s, actual_sections)
      expected_actual == SelectSeq(expected_order, InActual)
  IN IF actual_sections # expected_actual
     THEN <<Issue("L-01", "error", "Section order violation",
                  <<expected_actual, actual_sections>>, <<>>)>>
     ELSE <<>>

\* the issues _validate_l01_section_order appends
validate_l01_section_order(doc) ==
  LET InOrder(s) == InSeq(s, expected_order)
      actual_sections == SelectSeq(Keys(doc.sections), InOrder)
      InActual(s) == InSeq(s, actual_sections)
      expected_actual == SelectSeq(expected_order, InActual)
  IN IF actual_sections # expected_actual
     THEN <<Issue("L-01", "error", "Section order violation",
                  <<expected_actual, actual_sections>>, <<>>)>>
     ELSE <<>>

\* the issues _validate_l02_hyp_rollback_pairing appends
validate_l02_hyp_rollback_pairing(doc) ==
  LET hyp_count == Len(SectionItems(doc, <<"H", "Y", "P">>))
      rollback_count == Len(SectionItems(doc, <<"R", "O", "L", "L", "B", "A", "C", "K">>))
  IN IF hyp_count # rollback_count
     THEN <<Issue("L-02", "error", "HYP/ROLLBACK count mismatch",
                  <<>>, <<hyp_count, rollback_count>>)>>
     ELSE <<>>

\* the issues _validate_l03_numbers_outside_fact appends, in loop order
RECURSIVE L03Items(_, _, _)
L03Items(section_name, items, i) ==
  IF i > Len(items) THEN <<>>
  ELSE (IF SearchNumber(items[i], ValidatorUnits)
        THEN <<Issue("L-03", "warning", "Number found in section",
                     <<<<section_name, items[i]>>>>, <<>>)>>
        ELSE <<>>) \o L03Items(section_name, items, i + 1)

RECURSIVE L03Sections(_, _)
L03Sections(sections, k) ==
  IF k > Len(sections) THEN <<>>
  ELSE (IF sections[k].name = <<"F", "A", "C", "T">> THEN <<>>
        ELSE L03Items(sections[k].name, sections[k].items, 1))
       \o L03Sections(sections, k + 1)

validate_l03_numbers_outside_fact(doc) == L03Sections(doc.sections, 1)

\* rules L-04 .. L-10: each a pure function of the document that appends zero or
\* more issues of its own rule id; no criterion precise enough to model is given,
\* so they append nothing here
validate_l04_to_l10(doc) == <<>>

\* LRuleValidator.validate run from start to end with no other call in between
validate(doc) ==
  validate_l01_section_order(doc) \o validate_l02_hyp_rollback_pairing(doc)
  \o validate_l03_numbers_outside_fact(doc) \o validate_l04_to_l10(doc)

-----------------------------------------------------------------------------
(* src/metrics/calculator.py *)

is_constraint_satisfied(constraint, actual_value) ==
  IF constraint.operator = <<"<", "=">> THEN actual_value <= constraint.value
  ELSE IF constraint.operator = <<">", "=">> THEN actual_value >= constraint.value
  ELSE IF constraint.operator = <<"<">> THEN actual_value < constraint.value
  ELSE IF constraint.operator = <<">">> THEN actual_value > constraint.value
  ELSE IF constraint.operator = <<"=">> THEN actual_value = constraint.value
  ELSE FALSE

\* the loop of calculate_csr over constraints[i..]: the satisfied count
RECURSIVE SatisfiedCount(_, _, _)
SatisfiedCount(constraints, result, i) ==
  IF i > Len(constraints) THEN 0
  ELSE LET actual_value ==
             IF HasKey(result, constraints[i].name)
             THEN DictGet(result, constraints[i].name)[1]
             ELSE None
       IN (IF actual_value = None THEN 0
           ELSE IF is_constraint_satisfied(constraints[i], actual_value[1]) THEN 1
           ELSE 0) + SatisfiedCount(constraints, result, i + 1)

\* as calculate_csr, but dividing by the number of observed constraints only
ObservedCount(constraints, result) ==
  Cardinality({i \in 1..Len(constraints) :
    HasKey(result, constraints[i].name)
    /\ DictGet(result, constraints[i].name)[1] # None})
calculate_csr_observed_only(doc, result) ==
  IF Len(doc.constraints) = 0 THEN Frac(1, 1)
  ELSE IF result = None \/ Len(result[1]) = 0 THEN Frac(0, 1)
  ELSE IF ObservedCount(doc.constraints, result[1]) = 0 THEN Frac(1, 1)
  ELSE Frac(SatisfiedCount(doc.constraints, result[1], 1),
            ObservedCount(doc.constraints, result[1]))

calculate_csr(doc, result) ==
  IF Len(doc.constraints) = 0 THEN Frac(1, 1)
  ELSE IF result = None \/ Len(result[1]) = 0 THEN Frac(0, 1)
  ELSE Frac(SatisfiedCount(doc.constraints, result[1], 1), Len(doc.constraints))

CalculatorUnits == ValidatorUnits \cup {<<"s", "e", "r", "v", "e", "s">>}

RECURSIVE CountItems(_, _)
CountItems(items, i) ==
  IF i > Len(items) THEN 0
  ELSE (IF SearchNumber(items[i], CalculatorUnits) THEN 1 ELSE 0) + CountItems(items, i + 1)

RECURSIVE CountSections(_, _)
CountSections(sections, k) ==
  IF k > Len(sections) THEN 0
  ELSE (IF sections[k].name = <<"F", "A", "C", "T">> THEN 0 ELSE CountItems(sections[k].items, 1))
       + CountSections(sections, k + 1)

count_numbers_outside_fact(doc) == CountSections(doc.sections, 1)

risk_keywords ==
  {<<"a", "l", "l", "e", "r", "g">>, <<"d", "a", "n", "g", "e", "r">>, <<"r", "i", "s", "k">>, <<"s", "a", "f", "e">>, <<"t", "o", "x", "i", "c">>, <<"h", "a", "r", "m">>, <<"w", "a", "r", "n">>}

\* str(n) for a natural number
RECURSIVE NatStr(_)
NatStr(n) ==
  LET digit == <<"0", "1", "2", "3", "4", "5", "6", "7", "8", "9">>[(n % 10) + 1]
  IN IF n < 10 THEN <<digit>> ELSE Append(NatStr(n \div 10), digit)

\* str(v) for a float holding a whole number
FloatStr(v) == NatStr(v) \o <<".", "0">>

has_risk_constraints(doc) ==
  \/ \E i \in 1..Len(doc.constraints) :
       LET c == doc.constraints[i]
           constraint_str ==
             c.name \o <<" ">> \o c.operator \o <<" ">> \o FloatStr(c.value) \o <<" ">>
             \o (IF c.unit = None THEN <<>> ELSE c.unit[1])
       IN \E keyword \in risk_keywords : Contains(Lower(constraint_str), keyword)
  \/ \E k \in 1..Len(doc.sections) : \E i \in 1..Len(doc.sections[k].items) :
       \E keyword \in risk_keywords : Contains(Lower(doc.sections[k].items[i]), keyword)

Max(a, b) == IF a >= b THEN a ELSE b

\* penalties in hundredths: 0.1 per number, 0.2 and 0.15 flat
calculate_hrr(doc) ==
  LET numbers_outside_fact == count_numbers_outside_fact(doc)
      hyp_count == Len(SectionItems(doc, <<"H", "Y", "P">>))
      rollback_count == Len(SectionItems(doc, <<"R", "O", "L", "L", "B", "A", "C", "K">>))
      penalties ==
        (IF numbers_outside_fact > 0 THEN numbers_outside_fact * 10 ELSE 0)
        + (IF hyp_count # rollback_count THEN 20 ELSE 0)
        + (IF has_risk_constraints(doc) /\ ~HasKey(doc.sections, <<"S", "A", "F", "E", "T", "Y">>) THEN 15 ELSE 0)
  IN Hundredths(Max(0, 100 - penalties))

mandatory_sections ==
  <<<<"F", "A", "C", "T">>, <<"T", "E", "C", "H", "N", "I", "Q", "U", "E">>, <<"H", "Y", "P">>, <<"R", "O", "L", "L", "B", "A", "C", "K">>, <<"S", "A", "F", "E", "T", "Y">>, <<"C", "H", "E", "C", "K", "L", "I", "S", "T">>, <<"3", "C">>>>

\* as calculate_psl_coverage, but counting a raw 3C section
calculate_psl_coverage_raw_3c(doc) ==
  Frac(Cardinality({k \in 1..Len(mandatory_sections) :
                     HasKey(doc.sections, mandatory_sections[k])}),
       Len(mandatory_sections))

calculate_psl_coverage(doc) ==
  LET completed ==
        Cardinality({k \in 1..Len(mandatory_sections) :
          /\ HasKey(doc.sections, mandatory_sections[k])
          /\ (mandatory_sections[k] = <<"3", "C">> => doc.three_c # None)})
  IN Frac(completed, Len(mandatory_sections))

\* as calculate_three_c_score, but with three equal weights
calculate_three_c_score_equal_weights(doc) ==
  IF doc.three_c = None THEN Hundredths(0)
  ELSE Hundredths((IF doc.three_c[1].clear THEN 33 ELSE 0)
                  + (IF doc.three_c[1].cheap THEN 33 ELSE 0)
                  + (IF doc.three_c[1].safe THEN 33 ELSE 0))

calculate_three_c_score(doc) ==
  IF doc.three_c = None THEN Hundredths(0)
  ELSE Hundredths((IF doc.three_c[1].clear THEN 34 ELSE 0)
                  + (IF doc.three_c[1].cheap THEN 33 ELSE 0)
                  + (IF doc.three_c[1].safe THEN 33 ELSE 0))

calculate_all_metrics(doc, result) ==
  [csr |-> calculate_csr(doc, result),
   hrr |-> calculate_hrr(doc),
   psl_coverage |-> calculate_psl_coverage(doc),
   three_c_score |-> calculate_three_c_score(doc)]

get_quality_level(score) ==
  IF FracGeq(score, Frac(9, 10)) THEN "EXCELLENT"
  ELSE IF FracGeq(score, Frac(7, 10)) THEN "GOOD"
  ELSE IF FracGeq(score, Frac(5, 10)) THEN "FAIR"
  ELSE "POOR"

\* sum(metrics[key] * weights[key] for key in weights)
QualityScore(m) ==
  FracAdd(FracAdd(FracMul(m.csr, Frac(3, 10)), FracMul(m.hrr, Frac(4, 10))),
          FracAdd(FracMul(m.psl_coverage, Frac(2, 10)),
                  FracMul(m.three_c_score, Frac(1, 10))))

\* the dict the try block returns
AssessResult(doc, found, m, quality_score) ==
  [error |-> None, metrics |-> Some(m), quality_score |-> quality_score,
   validation_issues |-> Len(found),
   quality_level |-> get_quality_level(quality_score),
   document |-> Some(doc)]

AssessMetrics(doc, found, m) == AssessResult(doc, found, m, QualityScore(m))

\* validate, then calculate_all_metrics, on the parsed document
AssessDocument(doc, result) ==
  AssessMetrics(doc, validate(doc), calculate_all_metrics(doc, result))

\* the body of the try block: the first step that raises ends it
AssessParsed(parsed, result) ==
  IF parsed.raised # "" THEN parsed
  ELSE Returned(AssessDocument(parsed.value[1], result))

AssessTry(text, result) == AssessParsed(PSLFullParser_parse(text), result)

\* try ... except Exception as e: the handler's result stands for any failure
AssessHandled(tried) ==
  IF tried.raised # ""
  THEN Returned([error |-> Some(tried.message), metrics |-> None,
                 quality_score |-> Frac(0, 1), validation_issues |-> 0,
                 quality_level |-> "ERROR", document |-> None])
  ELSE tried

\* as assess_psl_quality, but without the except clause
assess_psl_quality_uncaught(text, result) == AssessTry(text, result)

assess_psl_quality(text, result) == AssessHandled(AssessTry(text, result))

-----------------------------------------------------------------------------
(* Input documents and execution results *)

MaxConstraints == 2
MaxSections == 3
MaxItems == 2

\* a document as PSLDocument builds it from values of the declared types
Doc(constraints, sections, three_c) ==
  PSLDocument(
    [version |-> <<"0", ".", "1">>, context |-> <<"k">>, goal |-> <<"g">>,
     constraints |-> constraints, resources |-> None, skill |-> None,
     sections |-> [i \in 1..Len(sections) |->
                     [name |-> sections[i].name, value |-> ListValue(sections[i].items)]],
     three_c |-> [i \in 1..Len(three_c) |-> ThreeCValue(three_c[i])],
     gloss |-> None]).value[1]

Operators == {<<"<", "=">>, <<">", "=">>, <<"<">>, <<">">>, <<"=">>, <<"!", "=">>}
ConstraintNames == {<<"t", "i", "m", "e">>, <<"c", "o", "s", "t">>}
ConstraintPool == {Constraint(n, op, 10, None) : n \in ConstraintNames, op \in Operators}
RiskConstraint == Constraint(<<"r", "i", "s", "k">>, <<"<", "=">>, 1, Some(<<"p", "c", "t">>))

\* an observed value per name: missing, None, or below / at / above the limit
Observed == {<<>>, <<None>>, <<Some(5)>>, <<Some(10)>>, <<Some(15)>>}
ExecutionResults ==
  {None} \cup
  {Some((IF t = <<>> THEN <<>> ELSE <<[name |-> <<"t", "i", "m", "e">>, value |-> t[1]]>>)
        \o (IF c = <<>> THEN <<>> ELSE <<[name |-> <<"c", "o", "s", "t">>, value |-> c[1]]>>))
     : t \in Observed, c \in Observed}

ThreeCOptions ==
  {None} \cup {Some(ThreeC(a, b, c)) : a \in BOOLEAN, b \in BOOLEAN, c \in BOOLEAN}

OtherTag == <<"N", "O", "T", "E">>
TagPool == {expected_order[i] : i \in 1..Len(expected_order)} \cup {OtherTag}
OneItem == <<<<"o", "k">>>>

ItemPool == {<<"o", "k">>, <<"5", "G">>, <<"6", " ", "s", "e", "r", "v", "e", "s">>, <<"r", "i", "s", "k", " ", "x">>, <<"a", "5", "g">>}
ItemTags == {<<"F", "A", "C", "T">>, <<"T", "E", "C", "H", "N", "I", "Q", "U", "E">>, <<"H", "Y", "P">>, <<"R", "O", "L", "L", "B", "A", "C", "K">>, <<"S", "A", "F", "E", "T", "Y">>}

\* sections[tag].append(item), opening the section when it is new
AddItem(sections, tag, item) ==
  IF HasKey(sections, tag)
  THEN [i \in 1..Len(sections) |->
          IF sections[i].name = tag
          THEN [name |-> tag, items |-> Append(sections[i].items, item)]
          ELSE sections[i]]
  ELSE Append(sections, [name |-> tag, items |-> <<item>>])

RECURSIVE Place(_, _)
Place(placements, i) ==
  IF i = 0 THEN <<>>
  ELSE CHOOSE r \in {AddItem(before, placements[i][1], placements[i][2]) :
                       before \in {Place(placements, i - 1)}} : TRUE

\* constraints against execution results
DocsCsr == {Doc(cs, <<>>, None) : cs \in SeqsUpTo(ConstraintPool, MaxConstraints)}
\* every subset of the known tags in canonical order, with every 3C value
DocsSubsets ==
  {Doc(<<>>, [i \in 1..Len(tags) |-> [name |-> tags[i], items |-> OneItem]], tc)
     : tags \in {Pick(expected_order, keep, 1) : keep \in SUBSET (1..Len(expected_order))},
       tc \in ThreeCOptions}
\* the tags in any order
DocsOrders ==
  {Doc(<<>>, [i \in 1..Len(tags) |-> [name |-> tags[i], items |-> OneItem]], None)
     : tags \in {s \in SeqsUpTo(TagPool, MaxSections) :
                   \A i, j \in 1..Len(s) : i # j => s[i] # s[j]}}
\* items placed in sections, with and without a risk constraint
DocsItems ==
  {Doc(cs, Place(p, Len(p)), None)
     : p \in SeqsUpTo(ItemTags \X ItemPool, MaxItems), cs \in {<<>>, <<RiskConstraint>>}}

Documents == DocsSubsets \cup DocsOrders \cup DocsItems

-----------------------------------------------------------------------------
(* One call on an input: parse, header parse or assessment of a text *)

NoCallYet == header_result = None /\ parse_result = None /\ assessment = None

NoValidator ==
  /\ heap = <<>> /\ self_issues = 0 /\ pc = <<>> /\ call_doc = <<>>
  /\ returned = <<>> /\ calls_left = <<>>

InitParse ==
  /\ psl_text \in {Some(t) : t \in Texts}
  /\ header_result = None /\ parse_result = None /\ assessment = None
  /\ document = None /\ execution_result = None /\ metrics = None /\ issues = None
  /\ NoValidator

ParseHeader ==
  /\ psl_text # None /\ NoCallYet
  /\ header_result' = Some(PSLHeaderParser_parse(psl_text[1]))
  /\ UNCHANGED <<psl_text, parse_result, assessment, document, execution_result,
                 metrics, issues, heap, self_issues, pc, call_doc, returned, calls_left>>

Parse ==
  /\ psl_text # None /\ NoCallYet
  /\ parse_result' = Some(PSLFullParser_parse(psl_text[1]))
  /\ UNCHANGED <<psl_text, header_result, assessment, document, execution_result,
                 metrics, issues, heap, self_issues, pc, call_doc, returned, calls_left>>

Assess ==
  /\ psl_text # None /\ NoCallYet
  /\ assessment' = Some(assess_psl_quality(psl_text[1], execution_result))
  /\ UNCHANGED <<psl_text, header_result, parse_result, document, execution_result,
                 metrics, issues, heap, self_issues, pc, call_doc, returned, calls_left>>

NextParse == ParseHeader \/ Parse \/ Assess
SpecParse == InitParse /\ [][NextParse]_vars

-----------------------------------------------------------------------------
(* One call on a document: the metrics, or a validation on a fresh validator *)

InitMetrics ==
  /\ \/ document \in {Some(d) : d \in DocsCsr} /\ execution_result \in ExecutionResults
     \/ document \in {Some(d) : d \in Documents} /\ execution_result = None
  /\ metrics = None /\ issues = None
  /\ psl_text = None /\ header_result = None /\ parse_result = None /\ assessment = None
  /\ NoValidator

CalculateAllMetrics ==
  /\ document # None /\ metrics = None /\ issues = None
  /\ metrics' = Some(calculate_all_metrics(document[1], execution_result))
  /\ UNCHANGED <<psl_text, header_result, parse_result, assessment, document,
                 execution_result, issues, heap, self_issues, pc, call_doc, returned,
                 calls_left>>

Validate ==
  /\ document # None /\ metrics = None /\ issues = None
  /\ issues' = Some(validate(document[1]))
  /\ UNCHANGED <<psl_text, header_result, parse_result, assessment, document,
                 execution_result, metrics, heap, self_issues, pc, call_doc, returned,
                 calls_left>>

NextMetrics == CalculateAllMetrics \/ Validate
SpecMetrics == InitMetrics /\ [][NextMetrics]_vars

-----------------------------------------------------------------------------
(* Calls of validate on one LRuleValidator shared by several threads.  The heap
   holds the list objects; self_issues is the list self.issues refers to. *)

NumThreads == 2
MaxCalls == 2
Threads == 1..NumThreads

ValidatorDocs ==
  {Doc(<<>>, <<[name |-> <<"F", "A", "C", "T">>, items |-> OneItem]>>, None),
   Doc(<<>>, <<[name |-> <<"H", "Y", "P">>, items |-> OneItem], [name |-> <<"F", "A", "C", "T">>, items |-> OneItem]>>, None),
   Doc(<<>>, <<[name |-> <<"T", "E", "C", "H", "N", "I", "Q", "U", "E">>, items |-> <<<<"5", "G">>>>]>>, None)}

InitValidate ==
  /\ heap = << <<>> >> /\ self_issues = 1
  /\ pc = [t \in Threads |-> "idle"]
  /\ call_doc = [t \in Threads |-> None]
  /\ returned = [t \in Threads |-> <<>>]
  /\ calls_left = [t \in Threads |-> MaxCalls]
  /\ psl_text = None /\ header_result = None /\ parse_result = None /\ assessment = None
  /\ document = None /\ execution_result = None /\ metrics = None /\ issues = None

NotValidator ==
  <<psl_text, header_result, parse_result, assessment, document, execution_result,
    metrics, issues>>

\* a thread enters validate(document)
Call(t) ==
  /\ t \in DOMAIN pc /\ pc[t] = "idle" /\ calls_left[t] > 0
  /\ \E d \in ValidatorDocs : call_doc' = [call_doc EXCEPT ![t] = Some(d)]
  /\ pc' = [pc EXCEPT ![t] = "reset"]
  /\ calls_left' = [calls_left EXCEPT ![t] = @ - 1]
  /\ UNCHANGED <<heap, self_issues, returned>>
  /\ UNCHANGED NotValidator

\* self.issues = []
ResetIssues(t) ==
  /\ t \in DOMAIN pc /\ pc[t] = "reset"
  /\ heap' = Append(heap, <<>>)
  /\ self_issues' = Len(heap) + 1
  /\ pc' = [pc EXCEPT ![t] = "l01"]
  /\ UNCHANGED <<call_doc, returned, calls_left>>
  /\ UNCHANGED NotValidator

\* one rule appends its issues to the list self.issues refers to now
RunRule(t, at, found, next) ==
  /\ t \in DOMAIN pc /\ pc[t] = at
  /\ heap' = [heap EXCEPT ![self_issues] = @ \o found]
  /\ pc' = [pc EXCEPT ![t] = next]
  /\ UNCHANGED <<self_issues, call_doc, returned, calls_left>>
  /\ UNCHANGED NotValidator

RunL01(t) == RunRule(t, "l01", validate_l01_section_order(call_doc[t][1]), "l02")
RunL02(t) == RunRule(t, "l02", validate_l02_hyp_rollback_pairing(call_doc[t][1]), "l03")
RunL03(t) == RunRule(t, "l03", validate_l03_numbers_outside_fact(call_doc[t][1]), "l04")
RunL04toL10(t) == RunRule(t, "l04", validate_l04_to_l10(call_doc[t][1]), "return")

\* return self.issues
Return(t) ==
  /\ t \in DOMAIN pc /\ pc[t] = "return"
  /\ returned' = [returned EXCEPT ![t] =
                    Append(@, [doc |-> call_doc[t][1], ref |-> self_issues,
                               list |-> heap[self_issues]])]
  /\ pc' = [pc EXCEPT ![t] = "idle"]
  /\ UNCHANGED <<heap, self_issues, call_doc, calls_left>>
  /\ UNCHANGED NotValidator

NextValidate ==
  \E t \in Threads :
    \/ Call(t) \/ ResetIssues(t) \/ RunL01(t) \/ RunL02(t) \/ RunL03(t)
    \/ RunL04toL10(t) \/ Return(t)
SpecValidate == InitValidate /\ [][NextValidate]_vars

-----------------------------------------------------------------------------

Init == InitParse \/ InitMetrics \/ InitValidate
Next == NextParse \/ NextMetrics \/ NextValidate
Spec == Init /\ [][Next]_vars

-----------------------------------------------------------------------------
(* Properties *)

Min(S) == CHOOSE x \in S : \A y \in S : x <= y
MaxOf(S) == CHOOSE x \in S : \A y \in S : x >= y

\* C1: PSLFullParser.parse returns a Document for every text and never ends in
\* a raised error, also when a header line or every section is missing.
C1_ParseNeverRaises ==
  parse_result # None => parse_result[1].raised = ""

\* the dict of the except clause for a failure with message msg
ErrorResult(msg) ==
  [error |-> Some(msg), metrics |-> None, quality_score |-> Frac(0, 1),
   validation_issues |-> 0, quality_level |-> "ERROR", document |-> None]

C2Holds(a, tried) ==
  /\ a.raised = ""
  /\ tried.raised # "" => a.value[1] = ErrorResult(tried.message)
  /\ tried.raised = "" => a.value[1].quality_level # "ERROR"

\* C2: assess_psl_quality never propagates a failure: when a step of its try
\* block fails, the result has quality_level ERROR, the failure message in
\* error, empty metrics, score 0.0 and 0 issues, and ERROR is returned only then.
C2_AssessReportsError ==
  assessment # None =>
    C2Holds(assessment[1], AssessTry(psl_text[1], execution_result))

C2_Witness ==
  /\ assessment # None
  /\ assessment[1].raised = ""
  /\ assessment[1].value[1] = ErrorResult("'goal'")

\* the operator holds between the observed value and the limit
OperatorHolds(op, observed, limit) ==
  \/ op \in {<<"<", "=">>, <<"<">>} /\ observed < limit
  \/ op \in {<<"<", "=">>, <<">", "=">>, <<"=">>} /\ observed = limit
  \/ op \in {<<">", "=">>, <<">">>} /\ observed > limit

SatisfiedSet(cs, er) ==
  {i \in 1..Len(cs) :
     \E k \in 1..Len(er) :
       /\ er[k].name = cs[i].name
       /\ er[k].value # None
       /\ OperatorHolds(cs[i].operator, er[k].value[1], cs[i].value)}

C3Holds(cs, er, csr) ==
  IF Len(cs) = 0 THEN csr = Frac(1, 1)
  ELSE IF er = None THEN csr = Frac(0, 1)
  ELSE csr.num * Len(cs) = Cardinality(SatisfiedSet(cs, er[1])) * csr.den

\* C3: calculate_csr is 1.0 with no constraints, 0.0 with constraints and no
\* execution_result, and otherwise the number of constraints that are keys of
\* execution_result and whose operator holds, divided by the number of all
\* constraints.
C3_Csr ==
  metrics # None => C3Holds(document[1].constraints, execution_result, metrics[1].csr)

TimeAtMost10 == Constraint(<<"t", "i", "m", "e">>, <<"<", "=">>, 10, None)
CostAtLeast10 == Constraint(<<"c", "o", "s", "t">>, <<">", "=">>, 10, None)

\* time<=10 observed as 5, and a second constraint with no observed value
C3_Witness ==
  /\ metrics # None
  /\ document[1].constraints = <<TimeAtMost10, CostAtLeast10>>
  /\ execution_result = Some(<<[name |-> <<"t", "i", "m", "e">>, value |-> Some(5)]>>)
  /\ metrics[1].csr = Frac(1, 2)

C4Holds(doc, hrr) ==
  ( /\ validate_l03_numbers_outside_fact(doc) = <<>>
    /\ Len(SectionItems(doc, <<"H", "Y", "P">>)) = Len(SectionItems(doc, <<"R", "O", "L", "L", "B", "A", "C", "K">>))
    /\ (~has_risk_constraints(doc) \/ HasKey(doc.sections, <<"S", "A", "F", "E", "T", "Y">>)) )
  => hrr = Frac(1, 1)

\* C4: calculate_hrr is exactly 1.0 for a document for which validate emits no
\* L-03 warning, whose HYP and ROLLBACK counts are equal, and which has no risk
\* language or has a SAFETY section.
C4_HrrPerfect ==
  metrics # None => C4Holds(document[1], metrics[1].hrr)

\* C5 as stated: calculate_three_c_score is one of 0.0, 0.33, 0.34, 0.67, 1.0.
C5_FiveValues ==
  metrics # None =>
    metrics[1].three_c_score \in {Hundredths(n) : n \in {0, 33, 34, 67, 100}}

\* C5: calculate_three_c_score is one of 0.0, 0.33, 0.34, 0.66, 0.67, 1.0, for an
\* absent ThreeC and for each of the eight combinations of the flags.
C5_ThreeCScoreValues ==
  metrics # None =>
    metrics[1].three_c_score \in {Hundredths(n) : n \in {0, 33, 34, 66, 67, 100}}

C5_Witness ==
  /\ metrics # None
  /\ document[1].three_c = Some(ThreeC(FALSE, TRUE, TRUE))
  /\ metrics[1].three_c_score = Hundredths(66)

\* the document with one more section, everything else as it is
WithSection(doc, tag) ==
  [doc EXCEPT !.sections = Append(@, [name |-> tag, items |-> OneItem])]

AddOk(doc, tag, before, after) ==
  /\ FracGeq(after, before)
  /\ (tag = <<"3", "C">> /\ ~FracGeq(before, after)) => doc.three_c # None

C6Holds(doc, before) ==
  \A k \in 1..Len(mandatory_sections) :
    ~HasKey(doc.sections, mandatory_sections[k]) =>
      AddOk(doc, mandatory_sections[k], before,
            calculate_psl_coverage(WithSection(doc, mandatory_sections[k])))

\* C6: adding a mandatory section the document lacks never lowers
\* calculate_psl_coverage, and adding 3C raises it only when the document has a
\* ThreeC value.
C6_CoverageMonotonic ==
  metrics # None => C6Holds(document[1], metrics[1].psl_coverage)

\* a document with a ThreeC value and no 3C section, three sections short of all
C6_Witness ==
  /\ metrics # None
  /\ document[1].three_c # None
  /\ ~HasKey(document[1].sections, <<"3", "C">>)
  /\ metrics[1].psl_coverage = Frac(4, 7)

C7Holds(args) ==
  args.raised = "" =>
    /\ \A i \in 1..Len(args.value[1].three_c) : args.value[1].three_c[i].kind = "ThreeC"
    /\ args.value[1].three_c # None <=>
         \E k \in 1..Len(args.value[1].sections) :
           /\ args.value[1].sections[k].name = <<"3", "C">>
           /\ args.value[1].sections[k].value.kind = "ThreeC"

\* C7: the three_c that parse gives the Document is a ThreeC value or absent,
\* never a list of items, and it is present exactly when a [3C] section was
\* parsed into three flags.
C7_ThreeCField ==
  parse_result # None => C7Holds(DocumentArgs(psl_text[1]))

ReturnedOk(r) ==
  /\ r.list = validate(r.doc)
  /\ heap[r.ref] = r.list

\* C8: every call of validate on a shared validator, sequential or interleaved,
\* returns the issue list of its own document, and a returned list is not
\* changed afterwards.
C8_ValidateIsPure ==
  \A t \in DOMAIN returned : \A k \in 1..Len(returned[t]) : ReturnedOk(returned[t][k])

IsKnown(tag) == \E i \in 1..Len(expected_order) : expected_order[i] = tag
Rank(tag) == CHOOSE i \in 1..Len(expected_order) : expected_order[i] = tag

\* the known tags appear in canonical order
InCanonicalOrder(sections) ==
  \A i, j \in 1..Len(sections) :
    (i < j /\ IsKnown(sections[i].name) /\ IsKnown(sections[j].name))
      => Rank(sections[i].name) < Rank(sections[j].name)

L01Issues(found) == {k \in 1..Len(found) : found[k].rule = "L-01"}

C9Holds(sections, found) ==
  IF InCanonicalOrder(sections) THEN L01Issues(found) = {}
  ELSE /\ Cardinality(L01Issues(found)) = 1
       /\ \A k \in L01Issues(found) : found[k].level = "error"

\* C9: validate emits exactly one error-level L-01 issue when the known tags of
\* the document are not in canonical order and none when they are; unknown
\* tags never cause one.
C9_SectionOrder ==
  issues # None => C9Holds(document[1].sections, issues[1])

\* an unknown tag in front, and known tags out of order after it
C9_Witness ==
  /\ issues # None
  /\ Len(document[1].sections) = 3
  /\ document[1].sections[1].name = OtherTag
  /\ L01Issues(issues[1]) # {}

\* the text between the first and the last character that is not whitespace
Trimmed(s) ==
  IF \A i \in 1..Len(s) : s[i] \in WHITESPACE THEN <<>>
  ELSE SubSeq(s, Min({i \in 1..Len(s) : s[i] \notin WHITESPACE}),
              MaxOf({i \in 1..Len(s) : s[i] \notin WHITESPACE}))

AfterFirstColon(line) ==
  SubSeq(line, Min({i \in 1..Len(line) : line[i] = ":"}) + 1, Len(line))

\* the maximal stretches of s without ";" that hold more than whitespace
Segments(s) ==
  {seg \in (1..Len(s)) \X (1..Len(s)) :
     /\ seg[1] <= seg[2]
     /\ seg[1] = 1 \/ s[seg[1] - 1] = ";"
     /\ seg[2] = Len(s) \/ s[seg[2] + 1] = ";"
     /\ \A i \in seg[1]..seg[2] : s[i] # ";"
     /\ \E i \in seg[1]..seg[2] : s[i] \notin WHITESPACE}

IsPieces(pieces, s) ==
  /\ Len(pieces) = Cardinality(Segments(s))
  /\ \A seg \in Segments(s) :
       pieces[1 + Cardinality({o \in Segments(s) : o[1] < seg[1]})]
         = Trimmed(SubSeq(s, seg[1], seg[2]))

\* the lines of the text that begin, once trimmed, with the prefix
LinesWith(text, prefix) ==
  {i \in 1..Len(Split(text, NL)) : StartsWith(Trimmed(Split(text, NL)[i]), prefix)}
LastLineWith(text, prefix) == Split(text, NL)[MaxOf(LinesWith(text, prefix))]

TextFieldOk(text, prefix, field) ==
  IF LinesWith(text, prefix) = {} THEN field = None
  ELSE field = Some(Trimmed(AfterFirstColon(LastLineWith(text, prefix))))

C10Holds(text, h) ==
  /\ IF LinesWith(text, <<"c", "o", "n", "s", "t", "r", "a", "i", "n", "t", "s", ":">>) = {} THEN h.constraints = None
     ELSE /\ h.constraints # None
          /\ IsPieces(h.constraints[1],
                      AfterFirstColon(LastLineWith(text, <<"c", "o", "n", "s", "t", "r", "a", "i", "n", "t", "s", ":">>)))
  /\ TextFieldOk(text, <<"c", "o", "n", "t", "e", "x", "t", ":">>, h.context)
  /\ TextFieldOk(text, <<"g", "o", "a", "l", ":">>, h.goal)
  /\ TextFieldOk(text, <<"s", "k", "i", "l", "l", ":">>, h.skill)

\* C10: PSLHeaderParser.parse sets constraints to the pieces of the text after
\* the first ":" of the constraints: line, split on ";", each trimmed, the empty
\* ones dropped, in order; context:, goal: and skill: yield the trimmed text
\* after their first ":".
C10_HeaderFields ==
  header_result # None => C10Holds(psl_text[1], header_result[1])

\* "  constraints: a=1 ;; b:2 ; c" gives the three pieces a=1, b:2, c
C10_Witness ==
  /\ header_result # None
  /\ header_result[1].constraints = Some(<<<<"a", "=", "1">>, <<"b", ":", "2">>, <<"c">>>>)
  /\ header_result[1].goal = Some(<<"x", ":", "y">>)

-----------------------------------------------------------------------------
(* The section loop, line by line *)

\* the text that parse hands to _parse_sections
sections_text(text) ==
  Join(SubSeq([i \in 1..Len(Split(text, NL)) |-> RStrip(Split(text, NL)[i])],
              find_header_end([i \in 1..Len(Split(text, NL)) |-> RStrip(Split(text, NL)[i])]) + 1,
              Len(Split(text, NL))),
       NL)

\* the loop variables of _parse_sections when it reaches line i of the text
StateBefore(text, i) ==
  SectionLoop(SubSeq(Split(text, NL), 1, i - 1), 1, SectionsStart, text)

\* the loop variables after line i of the text
StateAfter(text, i) == SectionLine(StateBefore(text, i), Split(text, NL)[i], text)

\* the line is not blank and not a section header
IsContentLine(line) ==
  /\ Len(line) > 0
  /\ ~(StartsWith(line, <<"[">>) /\ EndsWith(line, <<"]">>))

\* the list markers: "-", or a single-digit ordinal "1)" .. "9)"
Ordinals == {"1", "2", "3", "4", "5", "6", "7", "8", "9"}
MarkerLen(line) ==
  IF StartsWith(line, <<"-">>) THEN 1
  ELSE IF Len(line) >= 2 /\ line[1] \in Ordinals /\ line[2] = ")" THEN 2
  ELSE 0

\* the line without its marker and the whitespace after the marker
WithoutMarker(line) ==
  LStripChars(SubSeq(line, MarkerLen(line) + 1, Len(line)), WHITESPACE)

\* line i is reached with a section open and begins with a list marker
IsItemLine(text, i) ==
  /\ ~StateBefore(text, i).broke
  /\ Truthy(StateBefore(text, i).current_section)
  /\ IsContentLine(Strip(Split(text, NL)[i]))
  /\ MarkerLen(Strip(Split(text, NL)[i])) > 0

C11Holds(text) ==
  \A i \in 1..Len(Split(text, NL)) :
    IsItemLine(text, i) =>
      StateAfter(text, i).current_items
        = Append(StateBefore(text, i).current_items,
                 WithoutMarker(Strip(Split(text, NL)[i])))

\* C11: while a section is open, every line that begins with "-" or with an
\* ordinal "1)" .. "9)" is appended to the current section's items, and the item
\* is the line without that marker and the whitespace after it, its content
\* (leading digits included) kept as written.
C11_ItemNormalization ==
  parse_result # None => C11Holds(sections_text(psl_text[1]))

-----------------------------------------------------------------------------

\* line i is reached with 3C as the current section, is no list item under the
\* code's test, and contains ":": the 3C sub-parse happens here
IsThreeCLine(text, i) ==
  /\ ~StateBefore(text, i).broke
  /\ StateAfter(text, i).broke

\* the raw text from line i onward
RemainingText(text, i) ==
  Join(SubSeq(Split(text, NL), i, Len(Split(text, NL))), NL)

C12Holds(text) ==
  \A i \in 1..Len(Split(text, NL)) :
    IsThreeCLine(text, i) =>
      DictGet(StateAfter(text, i).sections, <<"3", "C">>)
        = Some(ThreeCValue(parse_three_c(RemainingText(text, i))))

\* C12: when the section loop, with 3C current, reaches a line containing ":",
\* the ThreeC flags are those of the remaining raw text, from that line onward:
\* a flag is true exactly when its "<flag>: yes" token occurs there, whatever
\* the case, and a token in an earlier section sets no flag.
C12_ThreeCSubParse ==
  parse_result # None => C12Holds(sections_text(psl_text[1]))

=============================================================================
